---- MODULE Spec2Model ----
(***************************************************************************)
(* Keyword search over the .txt files of a directory, in its two drivers:  *)
(*   search_threading.py        threads, one shared dict, one Lock         *)
(*   search_multiprocessing.py  processes, one Queue, merge in the driver  *)
(* One behaviour of Spec is one run of one of the two drivers. One          *)
(* behaviour of SpecBoth is a session on an unchanged directory in which    *)
(* the thread driver is run and, when it has printed, the process driver    *)
(* is run with the same command line; the two programs share nothing but    *)
(* their inputs.                                                            *)
(***************************************************************************)
EXTENDS Integers, Sequences, FiniteSets, TLC

(* ------------------------------ bounds --------------------------------- *)
\* most files the glob matches
MaxFiles == 3
\* largest value given to --threads / --procs
MaxWorkers == 2
\* largest value cpu_count() returns
MaxCpu == 2
\* most keywords on the command line
MaxKeywords == 2

(* ------------------------------ inputs --------------------------------- *)
\* a byte that is not valid UTF-8
BadByte == "?"

\* what a path of the directory can be: readable or not, and its bytes
FileKinds ==
    { [readable |-> TRUE,  bytes |-> <<"x", "r">>],
      [readable |-> TRUE,  bytes |-> <<"R", BadByte, "x">>],
      [readable |-> FALSE, bytes |-> <<"R", "x">>] }

\* the keywords a caller may pass, in the casing the caller typed
KeywordPool == { <<"R">>, <<"r", "X">> }

KeywordLists ==
    UNION { [1..n -> KeywordPool] : n \in 1..MaxKeywords }

Range(s) == { s[i] : i \in DOMAIN s }

(* --------------------------- pure functions ---------------------------- *)
\* str.lower() on one character
LowerChar(c) ==
    CASE c = "R" -> "r"
      [] c = "X" -> "x"
      [] OTHER   -> c

\* str.lower()
Lower(s) == [i \in DOMAIN s |-> LowerChar(s[i])]

\* bytes.decode("utf-8", errors="ignore"): undecodable bytes are dropped
Decode(b) == SelectSeq(b, LAMBDA c : c # BadByte)

\* str(p) for a Path p
Str(p) == <<"path", p>>

\* `s in t` on strings
IsSubstr(s, t) ==
    \E i \in 0..(Len(t) - Len(s)) : SubSeq(t, i + 1, i + Len(s)) = s

\* sorted(root.glob(pattern)): the matched paths in ascending order
RECURSIVE SortedSeq(_)
SortedSeq(S) ==
    IF S = {} THEN <<>>
    ELSE LET m == CHOOSE x \in S : \A y \in S : x <= y
         IN  <<m>> \o SortedSeq(S \ {m})

Max(a, b) == IF a >= b THEN a ELSE b
Min(a, b) == IF a <= b THEN a ELSE b

\* range(0, len, k) as the sequence of its values
RECURSIVE RangeFrom(_, _, _)
RangeFrom(i, len, k) ==
    IF i >= len THEN <<>> ELSE <<i>> \o RangeFrom(i + k, len, k)

\* chunked, with the slice seq[i:i+k+1] in place of seq[i:i+k]
chunked_overlap(seq, n) ==
    LET n1 == IF n <= 0 THEN 1 ELSE n
        k  == Max(1, (Len(seq) \div n1) + (IF Len(seq) % n1 # 0 THEN 1 ELSE 0))
        starts == RangeFrom(0, Len(seq), k)
    IN  [j \in DOMAIN starts |->
            SubSeq(seq, starts[j] + 1, Min(starts[j] + k + 1, Len(seq)))]

\* chunked, with the chunk size computed for n + 1 workers
chunked_extra(seq, n) ==
    LET n1 == (IF n <= 0 THEN 1 ELSE n) + 1
        k  == Max(1, (Len(seq) \div n1) + (IF Len(seq) % n1 # 0 THEN 1 ELSE 0))
        starts == RangeFrom(0, Len(seq), k)
    IN  [j \in DOMAIN starts |->
            SubSeq(seq, starts[j] + 1, Min(starts[j] + k, Len(seq)))]

\* chunked, with chunk size len // n + 1 whatever the remainder
chunked_plus1(seq, n) ==
    LET n1 == IF n <= 0 THEN 1 ELSE n
        k  == Max(1, (Len(seq) \div n1) + 1)
        starts == RangeFrom(0, Len(seq), k)
    IN  [j \in DOMAIN starts |->
            SubSeq(seq, starts[j] + 1, Min(starts[j] + k, Len(seq)))]

\* chunked, with chunk size len // n and no rounding up
chunked_floor(seq, n) ==
    LET n1 == IF n <= 0 THEN 1 ELSE n
        k  == Max(1, Len(seq) \div n1)
        starts == RangeFrom(0, Len(seq), k)
    IN  [j \in DOMAIN starts |->
            SubSeq(seq, starts[j] + 1, Min(starts[j] + k, Len(seq)))]

\* chunked(seq, n): the chunks in the order the generator yields them
chunked(seq, n) ==
    LET n1 == IF n <= 0 THEN 1 ELSE n
        k  == Max(1, (Len(seq) \div n1) + (IF Len(seq) % n1 # 0 THEN 1 ELSE 0))
        starts == RangeFrom(0, Len(seq), k)
    IN  [j \in DOMAIN starts |->
            SubSeq(seq, starts[j] + 1, Min(starts[j] + k, Len(seq)))]

\* {kw: [] for kw in keywords}
EmptyDict(keywords) == [k \in Range(keywords) |-> <<>>]

\* the keys of a dict built from keywords, in insertion order
RECURSIVE KeyOrder(_)
KeyOrder(keywords) ==
    IF keywords = <<>> THEN <<>>
    ELSE LET front == KeyOrder(SubSeq(keywords, 1, Len(keywords) - 1))
             last  == keywords[Len(keywords)]
         IN  IF last \in Range(front) THEN front ELSE Append(front, last)

\* the inner loop of scan_files for one file whose text was read
RECURSIVE ScanKeywords(_, _, _, _, _)
ScanKeywords(out, p, text, keywords, j) ==
    IF j > Len(keywords) THEN out
    ELSE LET kw  == keywords[j]
             lkw == Lower(kw)
             o2  == IF IsSubstr(lkw, text)
                    THEN [out EXCEPT ![kw] = Append(@, Str(p))]
                    ELSE out
         IN  ScanKeywords(o2, p, text, keywords, j + 1)

\* the outer loop of scan_files from the i-th file on
RECURSIVE ScanLoop(_, _, _, _, _)
ScanLoop(out, dir, files, keywords, i) ==
    IF i > Len(files) THEN out
    ELSE LET p == files[i]
         IN  IF ~dir[p].readable
             THEN ScanLoop(out, dir, files, keywords, i + 1)
             ELSE ScanLoop(
                    ScanKeywords(out, p, Lower(Decode(dir[p].bytes)), keywords, 1),
                    dir, files, keywords, i + 1)

\* scan_files, comparing the keyword as typed instead of its lower-case form
RECURSIVE ScanKeywords_nolower(_, _, _, _, _)
ScanKeywords_nolower(out, p, text, keywords, j) ==
    IF j > Len(keywords) THEN out
    ELSE LET kw  == keywords[j]
             o2  == IF IsSubstr(kw, text)
                    THEN [out EXCEPT ![kw] = Append(@, Str(p))]
                    ELSE out
         IN  ScanKeywords_nolower(o2, p, text, keywords, j + 1)

RECURSIVE ScanLoop_nolower(_, _, _, _, _)
ScanLoop_nolower(out, dir, files, keywords, i) ==
    IF i > Len(files) THEN out
    ELSE LET p == files[i]
         IN  IF ~dir[p].readable
             THEN ScanLoop_nolower(out, dir, files, keywords, i + 1)
             ELSE ScanLoop_nolower(
                    ScanKeywords_nolower(out, p, Lower(Decode(dir[p].bytes)), keywords, 1),
                    dir, files, keywords, i + 1)

scan_files_nolower(dir, files, keywords) ==
    ScanLoop_nolower(EmptyDict(keywords), dir, files, keywords, 1)

\* scan_files, with `break` in place of `continue` in the except branch
RECURSIVE ScanLoop_abort(_, _, _, _, _)
ScanLoop_abort(out, dir, files, keywords, i) ==
    IF i > Len(files) THEN out
    ELSE LET p == files[i]
         IN  IF ~dir[p].readable
             THEN out
             ELSE ScanLoop_abort(
                    ScanKeywords(out, p, Lower(Decode(dir[p].bytes)), keywords, 1),
                    dir, files, keywords, i + 1)

scan_files_abort(dir, files, keywords) ==
    ScanLoop_abort(EmptyDict(keywords), dir, files, keywords, 1)

\* scan_files iterating the distinct keywords instead of the list as given
scan_files_dedup(dir, files, keywords) ==
    ScanLoop(EmptyDict(keywords), dir, files, KeyOrder(keywords), 1)

\* scan_files(files, keywords), reading the files of directory state dir
scan_files(dir, files, keywords) ==
    ScanLoop(EmptyDict(keywords), dir, files, keywords, 1)

\* the loop body of merge_into with dst[k] = v in place of dst[k].extend(v)
extend_key_assign(dst, k, v) == [dst EXCEPT ![k] = v]

\* the loop body of merge_into inserting v after the first entry of dst[k]
extend_key_splice(dst, k, v) ==
    [dst EXCEPT ![k] = IF @ = <<>> THEN v ELSE <<Head(@)>> \o v \o Tail(@)]

\* dst[k].extend(v): one iteration of the loop of merge_into
extend_key(dst, k, v) == [dst EXCEPT ![k] = @ \o v]

\* the loop body of merge keyed by k.lower() instead of k
setdefault_extend_lower(a, k, v) ==
    [x \in DOMAIN a \cup {Lower(k)} |->
        IF x = Lower(k) THEN (IF Lower(k) \in DOMAIN a THEN a[Lower(k)] ELSE <<>>) \o v
        ELSE a[x]]

\* a.setdefault(k, []).extend(v): one iteration of the loop of merge
setdefault_extend(a, k, v) ==
    [x \in DOMAIN a \cup {k} |->
        IF x = k THEN (IF k \in DOMAIN a THEN a[k] ELSE <<>>) \o v ELSE a[x]]

RECURSIVE MergeFrom(_, _, _, _)
MergeFrom(a, b, order, j) ==
    IF j > Len(order) THEN a
    ELSE MergeFrom(setdefault_extend(a, order[j], b[order[j]]), b, order, j + 1)

\* merge, with the partial lists assigned instead of appended
merge_overwrite(a, b, order) == [x \in DOMAIN a \cup DOMAIN b |->
                                    IF x \in DOMAIN b THEN b[x] ELSE a[x]]

\* merge(a, b); order is the order of b.items()
merge(a, b, order) == MergeFrom(a, b, order, 1)

(* ------------------------------- state ---------------------------------- *)
VARIABLES
    \* the environment and the command line, the same for both drivers
    root_exists,    \* --path names an existing directory
    fs,             \* the paths the glob matches there, each with its file kind
    args_keywords,  \* --keywords
    args_n,         \* --threads / --procs
    \* search_threading.py
    t_pc,           \* where main is: "init", "main", "done"; "off" when not run
    t_files,        \* files
    shared,         \* shared
    lock,           \* lock: 0 when free, else the thread that holds it
    threads,        \* threads, each with the state of its worker call
    t_joined,       \* how many th.join() calls have returned
    t_stdout,       \* the documents printed
    \* search_multiprocessing.py
    p_pc,           \* where main is: "init", "spawn", "collect", "done"; "off" when not run
    p_files,        \* files
    n_proc,         \* n_proc
    q,              \* q
    procs,          \* procs, each with the state of its worker call
    result,         \* result (bound from line 70 on)
    p_got,          \* how many q.get() calls have returned
    p_joined,       \* how many p.join() calls have returned
    p_recvd,        \* history: the workers whose partial results q.get() returned, in order
    p_stdout        \* the documents printed

inputs == <<root_exists, fs, args_keywords, args_n>>
t_vars == <<t_pc, t_files, shared, lock, threads, t_joined, t_stdout>>
p_vars == <<p_pc, p_files, n_proc, q, procs, result, p_got, p_joined, p_recvd, p_stdout>>
vars   == <<inputs, t_vars, p_vars>>

\* a name that is not bound yet
Unbound == <<>>

\* the state before line 57 (55) of the drivers that are run
InitWith(tpc, ppc) ==
    /\ \/ /\ root_exists = TRUE
          /\ \E n \in 0..MaxFiles : fs \in [1..n -> FileKinds]
       \/ /\ root_exists = FALSE
          /\ fs = <<>>
    /\ args_keywords \in KeywordLists
    /\ args_n \in (-1)..MaxWorkers
    /\ t_pc = tpc
    /\ t_files = Unbound
    /\ shared = Unbound
    /\ lock = 0
    /\ threads = <<>>
    /\ t_joined = 0
    /\ t_stdout = <<>>
    /\ p_pc = ppc
    /\ p_files = Unbound
    /\ n_proc = 0
    /\ q = <<>>
    /\ procs = <<>>
    /\ result = Unbound
    /\ p_got = 0
    /\ p_joined = 0
    /\ p_recvd = <<>>
    /\ p_stdout = <<>>

\* one of the two drivers is run
Init == InitWith("init", "off") \/ InitWith("off", "init")

\* both drivers are run, one after the other
InitBoth == InitWith("init", "init")

\* root.glob(pattern): nothing is matched under a root that does not exist
Glob == IF root_exists THEN DOMAIN fs ELSE {}

(* ------------------------- search_threading.py -------------------------- *)
\* main, lines 57-66: enumerate, build shared and lock, start the timer
T_Setup ==
    /\ t_pc = "init"
    /\ t_files' = SortedSeq(Glob)
    /\ shared' = EmptyDict(args_keywords)
    /\ lock' = 0
    /\ threads' = <<>>
    /\ t_pc' = "main"
    /\ UNCHANGED <<t_joined, t_stdout, inputs, p_vars>>

TChunks == chunked(t_files, args_n)

\* main, lines 67-70: one iteration of the start loop
T_Start ==
    /\ t_pc = "main"
    /\ Len(threads) < Len(TChunks)
    /\ threads' = Append(threads,
            [files |-> TChunks[Len(threads) + 1], pc |-> "scan",
             part |-> Unbound, ki |-> 0, scans |-> 0, merges |-> 0])
    /\ UNCHANGED <<t_pc, t_files, shared, lock, t_joined, t_stdout, inputs, p_vars>>

\* worker, line 45
T_Scan(i) ==
    /\ threads[i].pc = "scan"
    /\ threads' = [threads EXCEPT
            ![i].part = scan_files(fs, threads[i].files, args_keywords),
            ![i].scans = @ + 1,
            ![i].pc = "wait"]
    /\ UNCHANGED <<t_pc, t_files, shared, lock, t_joined, t_stdout, inputs, p_vars>>

\* worker, line 46, taking the lock whether or not it is free
T_Acquire_nolock(i) ==
    /\ threads[i].pc = "wait"
    /\ lock' = i
    /\ threads' = [threads EXCEPT ![i].pc = "merge", ![i].ki = 1]
    /\ UNCHANGED <<t_pc, t_files, shared, t_joined, t_stdout, inputs, p_vars>>

\* worker, line 46: lock.__enter__ blocks until the lock is free
T_Acquire(i) ==
    /\ threads[i].pc = "wait"
    /\ lock = 0
    /\ lock' = i
    /\ threads' = [threads EXCEPT ![i].pc = "merge", ![i].ki = 1]
    /\ UNCHANGED <<t_pc, t_files, shared, t_joined, t_stdout, inputs, p_vars>>

\* merge_into, lines 41-42: one iteration, run by worker i inside the lock
T_MergeKey(i) ==
    /\ threads[i].pc = "merge"
    /\ threads[i].ki <= Len(KeyOrder(args_keywords))
    /\ LET k == KeyOrder(args_keywords)[threads[i].ki]
       IN  shared' = extend_key(shared, k, threads[i].part[k])
    /\ threads' = [threads EXCEPT ![i].ki = @ + 1]
    /\ UNCHANGED <<t_pc, t_files, lock, t_joined, t_stdout, inputs, p_vars>>

\* worker, line 47, when the with-block ends without lock.__exit__
T_Release_keep(i) ==
    /\ threads[i].pc = "merge"
    /\ threads[i].ki > Len(KeyOrder(args_keywords))
    /\ lock' = lock
    /\ threads' = [threads EXCEPT ![i].pc = "done", ![i].merges = @ + 1]
    /\ UNCHANGED <<t_pc, t_files, shared, t_joined, t_stdout, inputs, p_vars>>

\* worker, line 47 done: lock.__exit__, and the thread ends
T_Release(i) ==
    /\ threads[i].pc = "merge"
    /\ threads[i].ki > Len(KeyOrder(args_keywords))
    /\ lock' = 0
    /\ threads' = [threads EXCEPT ![i].pc = "done", ![i].merges = @ + 1]
    /\ UNCHANGED <<t_pc, t_files, shared, t_joined, t_stdout, inputs, p_vars>>

\* a thread that dies of an uncaught error before it has its partial result
T_Crash(i) ==
    /\ threads[i].pc = "scan"
    /\ threads' = [threads EXCEPT ![i].pc = "crashed"]
    /\ UNCHANGED <<t_pc, t_files, shared, lock, t_joined, t_stdout, inputs, p_vars>>

TEnded(i) == threads[i].pc \in {"done", "crashed"}

\* main, lines 72-73, with join returning at once
T_Join_nowait ==
    /\ t_pc = "main"
    /\ Len(threads) = Len(TChunks)
    /\ t_joined < Len(threads)
    /\ t_joined' = t_joined + 1
    /\ UNCHANGED <<t_pc, t_files, shared, lock, threads, t_stdout, inputs, p_vars>>

\* main, lines 72-73: one th.join(), which returns when that thread has ended
T_Join ==
    /\ t_pc = "main"
    /\ Len(threads) = Len(TChunks)
    /\ t_joined < Len(threads)
    /\ TEnded(t_joined + 1)
    /\ t_joined' = t_joined + 1
    /\ UNCHANGED <<t_pc, t_files, shared, lock, threads, t_stdout, inputs, p_vars>>

\* main, lines 74-76, reached without the join loop of lines 72-73
T_Print_nojoin ==
    /\ t_pc = "main"
    /\ Len(threads) = Len(TChunks)
    /\ t_stdout' = Append(t_stdout, [results |-> shared])
    /\ t_pc' = "done"
    /\ UNCHANGED <<t_files, shared, lock, threads, t_joined, inputs, p_vars>>

\* main, lines 74-76: stop the timer and print the document
T_Print ==
    /\ t_pc = "main"
    /\ Len(threads) = Len(TChunks)
    /\ t_joined = Len(threads)
    /\ t_stdout' = Append(t_stdout, [results |-> shared])
    /\ t_pc' = "done"
    /\ UNCHANGED <<t_files, shared, lock, threads, t_joined, inputs, p_vars>>

(* ---------------------- search_multiprocessing.py ----------------------- *)
\* main, lines 55-63: enumerate, n_proc, the queue, start the timer
P_Setup ==
    /\ t_pc \in {"off", "done"}
    /\ p_pc = "init"
    /\ p_files' = SortedSeq(Glob)
    /\ \E cpu \in 1..MaxCpu : n_proc' = IF args_n # 0 THEN args_n ELSE cpu
    /\ q' = <<>>
    /\ procs' = <<>>
    /\ p_pc' = "spawn"
    /\ UNCHANGED <<result, p_got, p_joined, p_recvd, p_stdout, inputs, t_vars>>

PChunks == chunked(p_files, n_proc)

\* main, lines 64-67: one iteration of the start loop
P_Start ==
    /\ p_pc = "spawn"
    /\ Len(procs) < Len(PChunks)
    /\ procs' = Append(procs,
            [files |-> PChunks[Len(procs) + 1], pc |-> "run", scans |-> 0, puts |-> 0])
    /\ UNCHANGED <<p_pc, p_files, n_proc, q, result, p_got, p_joined, p_recvd, p_stdout,
                   inputs, t_vars>>

\* main, line 70
P_InitResult ==
    /\ p_pc = "spawn"
    /\ Len(procs) = Len(PChunks)
    /\ result' = EmptyDict(args_keywords)
    /\ p_pc' = "collect"
    /\ UNCHANGED <<p_files, n_proc, q, procs, p_got, p_joined, p_recvd, p_stdout, inputs, t_vars>>

\* worker, line 40: scan the chunk and put the partial result on the queue
P_Worker(i) ==
    /\ procs[i].pc = "run"
    /\ q' = Append(q, [from |-> i,
                       part |-> scan_files(fs, procs[i].files, args_keywords)])
    /\ procs' = [procs EXCEPT ![i].pc = "exiting", ![i].scans = @ + 1, ![i].puts = @ + 1]
    /\ UNCHANGED <<p_pc, p_files, n_proc, result, p_got, p_joined, p_recvd, p_stdout,
                   inputs, t_vars>>

\* worker has returned: the process flushes the queue and ends
P_Exit(i) ==
    /\ procs[i].pc = "exiting"
    /\ procs' = [procs EXCEPT ![i].pc = "done"]
    /\ UNCHANGED <<p_pc, p_files, n_proc, q, result, p_got, p_joined, p_recvd, p_stdout,
                   inputs, t_vars>>

\* a process that dies before it has put its partial result
P_Crash(i) ==
    /\ procs[i].pc = "run"
    /\ procs' = [procs EXCEPT ![i].pc = "crashed"]
    /\ UNCHANGED <<p_pc, p_files, n_proc, q, result, p_got, p_joined, p_recvd, p_stdout,
                   inputs, t_vars>>

\* main, lines 71-73, with a get that gives up on an empty queue
P_Recv_nowait ==
    /\ p_pc = "collect"
    /\ p_got < Len(procs)
    /\ IF q # <<>>
       THEN /\ result' = merge(result, Head(q).part, KeyOrder(args_keywords))
            /\ q' = Tail(q)
            /\ p_recvd' = Append(p_recvd, Head(q).from)
       ELSE UNCHANGED <<result, q, p_recvd>>
    /\ p_got' = p_got + 1
    /\ UNCHANGED <<p_pc, p_files, n_proc, procs, p_joined, p_stdout, inputs, t_vars>>

\* main, lines 71-73: one q.get(), which blocks on an empty queue, and its merge
P_Recv ==
    /\ p_pc = "collect"
    /\ p_got < Len(procs)
    /\ q # <<>>
    /\ result' = merge(result, Head(q).part, KeyOrder(args_keywords))
    /\ q' = Tail(q)
    /\ p_recvd' = Append(p_recvd, Head(q).from)
    /\ p_got' = p_got + 1
    /\ UNCHANGED <<p_pc, p_files, n_proc, procs, p_joined, p_stdout, inputs, t_vars>>

PEnded(i) == procs[i].pc \in {"done", "crashed"}

\* main, lines 75-76, with join returning at once
P_Join_nowait ==
    /\ p_pc = "collect"
    /\ p_got = Len(procs)
    /\ p_joined < Len(procs)
    /\ p_joined' = p_joined + 1
    /\ UNCHANGED <<p_pc, p_files, n_proc, q, procs, result, p_got, p_recvd, p_stdout,
                   inputs, t_vars>>

\* main, lines 75-76: one p.join(), which returns when that process has ended
P_Join ==
    /\ p_pc = "collect"
    /\ p_got = Len(procs)
    /\ p_joined < Len(procs)
    /\ PEnded(p_joined + 1)
    /\ p_joined' = p_joined + 1
    /\ UNCHANGED <<p_pc, p_files, n_proc, q, procs, result, p_got, p_recvd, p_stdout,
                   inputs, t_vars>>

\* main, lines 77-79: stop the timer and print the document
P_Print ==
    /\ p_pc = "collect"
    /\ p_got = Len(procs)
    /\ p_joined = Len(procs)
    /\ p_stdout' = Append(p_stdout, [results |-> result])
    /\ p_pc' = "done"
    /\ UNCHANGED <<p_files, n_proc, q, procs, result, p_got, p_joined, p_recvd, inputs, t_vars>>

(* --------------------------- specification ------------------------------ *)
Next ==
    \/ T_Setup
    \/ T_Start
    \/ \E i \in DOMAIN threads : T_Scan(i)
    \/ \E i \in DOMAIN threads : T_Acquire(i)
    \/ \E i \in DOMAIN threads : T_MergeKey(i)
    \/ \E i \in DOMAIN threads : T_Release(i)
    \/ T_Join
    \/ T_Print
    \/ P_Setup
    \/ P_Start
    \/ P_InitResult
    \/ \E i \in DOMAIN procs : P_Worker(i)
    \/ \E i \in DOMAIN procs : P_Exit(i)
    \/ P_Recv
    \/ P_Join
    \/ P_Print

Spec == Init /\ [][Next]_vars

SpecBoth == InitBoth /\ [][Next]_vars

\* the scheduler runs every thread and process that can take a step, and no
\* worker fails
FairSpec == Spec /\ WF_vars(Next)

\* the same session when a worker may die before it delivers its partial result
Fault ==
    \/ \E i \in DOMAIN threads : T_Crash(i)
    \/ \E i \in DOMAIN procs : P_Crash(i)

NextFault == Next \/ Fault

SpecFault == Init /\ [][NextFault]_vars

(* ------------------------------- claims --------------------------------- *)
TDone == t_pc = "done"
PDone == p_pc = "done"

\* the mapping each driver printed
TOut == t_stdout[1].results
POut == p_stdout[1].results

Keywords == Range(args_keywords)

\* the file at path f can be read and its lower-cased text contains lower(k)
Matches(f, k) ==
    /\ fs[f].readable
    /\ IsSubstr(Lower(k), Lower(Decode(fs[f].bytes)))

\* the concatenation of a sequence of sequences
RECURSIVE Flatten(_)
Flatten(ss) ==
    IF ss = <<>> THEN <<>> ELSE Head(ss) \o Flatten(Tail(ss))

\* how many times x occurs in the sequence s
Count(x, s) == Cardinality({ i \in DOMAIN s : s[i] = x })

\* C1: when either driver has finished, str(f) is in result[k] if and only if
\* f was read and its lower-cased content contains the lower-cased keyword k,
\* for every enumerated file f and every requested keyword k.
C1_ResultIffMatch ==
    /\ TDone => \A f \in Range(t_files) : \A k \in Keywords :
                    (Str(f) \in Range(TOut[k])) <=> Matches(f, k)
    /\ PDone => \A f \in Range(p_files) : \A k \in Keywords :
                    (Str(f) \in Range(POut[k])) <=> Matches(f, k)

\* the thread driver finished with two workers, on a directory with a file
\* that matches a keyword typed in another casing, a readable file that does
\* not contain a keyword, and an unreadable file that would
C1_Witness ==
    /\ TDone
    /\ Len(threads) = 2
    /\ \E f \in Range(t_files) : \E k \in Keywords :
          /\ Matches(f, k)
          /\ ~IsSubstr(k, Decode(fs[f].bytes))
          /\ Str(f) \in Range(TOut[k])
    /\ \E f \in Range(t_files) : \E k \in Keywords :
          fs[f].readable /\ ~Matches(f, k) /\ Str(f) \notin Range(TOut[k])
    /\ \E f \in Range(t_files) : \E k \in Keywords :
          /\ ~fs[f].readable
          /\ IsSubstr(Lower(k), Lower(Decode(fs[f].bytes)))

\* C2: whenever the aggregate of a driver exists (shared from its creation on,
\* result from its creation on, and the printed mapping), its key set is
\* exactly the set of requested keywords.
C2_KeySet ==
    /\ t_pc \in {"main", "done"} => DOMAIN shared = Keywords
    /\ p_pc \in {"collect", "done"} => DOMAIN result = Keywords
    /\ TDone => DOMAIN TOut = Keywords
    /\ PDone => DOMAIN POut = Keywords

\* the process driver finished on an empty file list with two keywords, and
\* both keywords map to []
C2_WitnessEmpty ==
    /\ PDone
    /\ root_exists /\ p_files = <<>>
    /\ Cardinality(Keywords) = 2
    /\ \A k \in Keywords : POut[k] = <<>>

\* the chunks cs partition the list files into contiguous slices
IsPartition(cs, files) ==
    /\ Flatten(cs) = files
    /\ \A f \in Range(files) :
          Cardinality({ j \in DOMAIN cs : f \in Range(cs[j]) }) = 1
    /\ \A j \in DOMAIN cs :
          \E a \in 1..(Len(files) + 1) : \E b \in 0..Len(files) :
              cs[j] = SubSeq(files, a, b)

\* C3: for a worker count W >= 1, the chunks of chunked, in emission order,
\* concatenate to the file list, every file is in exactly one chunk, and each
\* chunk is a contiguous slice; these are the chunks the workers were given.
C3_Partition ==
    /\ (t_pc \in {"main", "done"} /\ args_n >= 1) =>
          /\ IsPartition(chunked(t_files, args_n), t_files)
          /\ Len(threads) = Len(TChunks) =>
                IsPartition([i \in DOMAIN threads |-> threads[i].files], t_files)
    /\ (p_pc \in {"spawn", "collect", "done"} /\ args_n >= 1) =>
          /\ IsPartition(chunked(p_files, n_proc), p_files)
          /\ Len(procs) = Len(PChunks) =>
                IsPartition([i \in DOMAIN procs |-> procs[i].files], p_files)

\* three files split for two workers into a chunk of two and a chunk of one
C3_Witness ==
    /\ TDone
    /\ args_n = 2
    /\ t_files = <<1, 2, 3>>
    /\ Len(threads) = 2
    /\ threads[1].files = <<1, 2>> /\ threads[2].files = <<3>>

\* the paths of chunk files as result entries
StrSet(files) == { Str(f) : f \in Range(files) }

\* C4: one worker is started per chunk and holds exactly that chunk, its
\* partial result names only files of its chunk, no chunk is scanned or merged
\* twice, and when a driver has finished every chunk was scanned exactly once
\* and its partial result merged into the aggregate exactly once.
C4_OncePerChunk ==
    /\ t_pc \in {"main", "done"} =>
          /\ Len(threads) <= Len(TChunks)
          /\ \A i \in DOMAIN threads :
                /\ threads[i].files = TChunks[i]
                /\ threads[i].scans <= 1 /\ threads[i].merges <= 1
                /\ threads[i].pc # "scan" =>
                      \A k \in Keywords : Range(threads[i].part[k]) \subseteq StrSet(TChunks[i])
    /\ TDone =>
          /\ Len(threads) = Len(TChunks)
          /\ \A i \in DOMAIN threads : threads[i].scans = 1 /\ threads[i].merges = 1
          /\ \A k \in Keywords : \A i \in DOMAIN threads : \A x \in Range(threads[i].part[k]) :
                Count(x, TOut[k]) = Count(x, threads[i].part[k])
    /\ p_pc \in {"spawn", "collect", "done"} =>
          /\ Len(procs) <= Len(PChunks)
          /\ \A i \in DOMAIN procs :
                /\ procs[i].files = PChunks[i]
                /\ procs[i].scans <= 1 /\ Count(i, p_recvd) <= 1
          /\ \A j \in DOMAIN q :
                \A k \in Keywords : Range(q[j].part[k]) \subseteq StrSet(PChunks[q[j].from])
    /\ PDone =>
          /\ Len(procs) = Len(PChunks)
          /\ \A i \in DOMAIN procs : procs[i].scans = 1 /\ Count(i, p_recvd) = 1

\* the thread driver finished with two workers that each found something and
\* merged it once, the second worker before the first
C4_Witness ==
    /\ TDone
    /\ Len(threads) = 2
    /\ \A i \in DOMAIN threads :
          /\ threads[i].scans = 1 /\ threads[i].merges = 1
          /\ \E k \in Keywords : threads[i].part[k] # <<>>
    /\ \E k \in Keywords : TOut[k] = threads[2].part[k] \o threads[1].part[k]

\* what one scan of the whole sorted file list finds: the run with one worker
Sequential == scan_files(fs, SortedSeq(Glob), args_keywords)

\* C5: the set of paths a finished driver reports for a keyword is the set a
\* single sequential scan of the whole file list finds, whatever the worker
\* count and the interleaving of the workers.
C5_WorkerCountInvariance ==
    /\ TDone => \A k \in Keywords : Range(TOut[k]) = Range(Sequential[k])
    /\ PDone => \A k \in Keywords : Range(POut[k]) = Range(Sequential[k])

\* a finished run with two workers whose list has the paths in another order
\* than the sequential scan
C5_Witness ==
    /\ PDone
    /\ Len(procs) = 2
    /\ \E k \in Keywords :
          /\ POut[k] # Sequential[k]
          /\ Range(POut[k]) = Range(Sequential[k])
          /\ Len(Sequential[k]) >= 2

\* C6: when both drivers of a session have finished on the same inputs, every keyword has
\* the same paths with the same multiplicities in the two printed mappings.
C6_VariantsAgree ==
    (TDone /\ PDone) =>
        /\ DOMAIN TOut = DOMAIN POut
        /\ \A k \in DOMAIN TOut :
              /\ Len(TOut[k]) = Len(POut[k])
              /\ \A x \in Range(TOut[k]) \cup Range(POut[k]) :
                    Count(x, TOut[k]) = Count(x, POut[k])

\* both finished, with the same paths under a keyword in different orders
C6_Witness ==
    /\ TDone /\ PDone
    /\ args_n # 0
    /\ \E k \in Keywords :
          /\ TOut[k] # POut[k]
          /\ Len(TOut[k]) >= 2
          /\ Range(TOut[k]) = Range(POut[k])

\* C7: a file that cannot be read is skipped and nothing else is: it appears
\* under no keyword, every readable file of the same chunk and of every other
\* chunk is reported under each keyword it contains, and the worker and the
\* driver finish as they do without it.
C7_SkipUnreadable ==
    /\ \A i \in DOMAIN threads : threads[i].pc # "scan" =>
          \A f \in Range(threads[i].files) : \A k \in Keywords :
              /\ ~fs[f].readable => Str(f) \notin Range(threads[i].part[k])
              /\ Matches(f, k) => Str(f) \in Range(threads[i].part[k])
    /\ \A j \in DOMAIN q :
          \A f \in Range(procs[q[j].from].files) : \A k \in Keywords :
              /\ ~fs[f].readable => Str(f) \notin Range(q[j].part[k])
              /\ Matches(f, k) => Str(f) \in Range(q[j].part[k])
    /\ TDone =>
          /\ \A i \in DOMAIN threads : threads[i].pc = "done"
          /\ \A f \in Range(t_files) : \A k \in Keywords :
                /\ ~fs[f].readable => Str(f) \notin Range(TOut[k])
                /\ Matches(f, k) => Str(f) \in Range(TOut[k])
    /\ PDone =>
          /\ \A i \in DOMAIN procs : procs[i].pc = "done"
          /\ \A f \in Range(p_files) : \A k \in Keywords :
                /\ ~fs[f].readable => Str(f) \notin Range(POut[k])
                /\ Matches(f, k) => Str(f) \in Range(POut[k])

\* a chunk whose first file cannot be read and whose second file matches, next
\* to another chunk with a match: the process driver prints both matches
C7_Witness ==
    /\ PDone
    /\ Len(procs) = 2
    /\ Len(procs[1].files) = 2
    /\ ~fs[procs[1].files[1]].readable
    /\ \E k \in Keywords :
          /\ Matches(procs[1].files[2], k)
          /\ Matches(procs[2].files[1], k)
          /\ POut[k] \in { <<Str(2), Str(3)>>, <<Str(3), Str(2)>> }

\* the lock is held exactly by the worker that is inside its merge step, which
\* has its whole partial result by then; so at most one worker merges at a time
C8_LockInv ==
    /\ lock \in {0} \cup DOMAIN threads
    /\ \A i \in DOMAIN threads : (threads[i].pc = "merge") <=> (lock = i)
    /\ Cardinality({ i \in DOMAIN threads : threads[i].pc = "merge" }) <= 1
    /\ \A i \in DOMAIN threads :
          lock = i => threads[i].scans = 1 /\ DOMAIN threads[i].part = Keywords

\* a step that changes shared, once main has created it, is one extend by the
\* worker that holds the lock before and after the step
C8_WriteUnderLock ==
    (shared' # shared /\ t_pc \in {"main", "done"}) =>
        /\ lock # 0 /\ lock' = lock
        /\ threads[lock].pc = "merge"
        /\ \E k \in Keywords : shared' = extend_key(shared, k, threads[lock].part[k])

\* C8: in the thread driver shared is written only by a worker that holds the
\* lock, at most one worker is inside the merge step, and no worker holds the
\* lock while it scans.
C8_Lock == []C8_LockInv /\ [][C8_WriteUnderLock]_vars

\* one worker is in the middle of its merge, having written, while the other
\* has its partial result and waits for the lock
C8_Witness ==
    /\ Len(threads) = 2
    /\ lock = 1
    /\ threads[1].pc = "merge" /\ threads[1].ki = 2
    /\ threads[2].pc = "wait"
    /\ \E k \in Keywords : shared[k] # <<>>

\* every partial result put is on the queue or has been received, never both
C9_QueueInv ==
    /\ \A i \in DOMAIN procs :
          /\ procs[i].puts <= 1
          /\ procs[i].pc \in {"exiting", "done"} => procs[i].puts = 1
          /\ procs[i].puts =
                Cardinality({ j \in DOMAIN q : q[j].from = i }) + Count(i, p_recvd)
    /\ p_got = Len(p_recvd)
    /\ p_got <= Len(procs)
    /\ PDone =>
          /\ q = <<>>
          /\ p_got = Len(procs)
          /\ \A i \in DOMAIN procs : Count(i, p_recvd) = 1

\* a step that changes result is main's: it creates result, or it merges the
\* partial result at the head of the queue and removes it; no worker moves
C9_DriverWrites ==
    (result' # result) =>
        /\ procs' = procs
        /\ \/ p_pc = "spawn" /\ p_pc' = "collect"
           \/ /\ p_pc = "collect" /\ q # <<>>
              /\ q' = Tail(q)
              /\ p_got' = p_got + 1
              /\ result' = merge(result, Head(q).part, KeyOrder(args_keywords))

\* C9: in the process driver the workers never write the aggregate, each puts
\* one partial result, main does one receive per started worker, every partial
\* result put is received and merged exactly once, in arrival order, and the
\* queue is empty when main has finished.
C9_Queue == []C9_QueueInv /\ [][C9_DriverWrites]_vars

\* main has finished after receiving the second worker's result first
C9_Witness ==
    /\ PDone
    /\ p_recvd = <<2, 1>>
    /\ q = <<>>
    /\ \E k \in Keywords : Len(POut[k]) = 2 /\ POut[k][1] = Str(p_files[Len(p_files)])

\* C10: once a driver has printed, every worker was started and joined, none
\* is running, every partial result is merged, and the aggregate is still the
\* mapping that was printed.
C10_EmitAfterJoin ==
    /\ t_stdout # <<>> =>
          /\ Len(threads) = Len(TChunks)
          /\ t_joined = Len(threads)
          /\ lock = 0
          /\ \A i \in DOMAIN threads :
                TEnded(i) /\ (threads[i].pc = "done" => threads[i].merges = 1)
          /\ shared = TOut
    /\ p_stdout # <<>> =>
          /\ Len(procs) = Len(PChunks)
          /\ p_joined = Len(procs)
          /\ q = <<>>
          /\ \A i \in DOMAIN procs :
                PEnded(i) /\ (procs[i].pc = "done" => Count(i, p_recvd) = 1)
          /\ result = POut

\* the process driver has printed a non-empty result after joining two workers
C10_Witness ==
    /\ Len(p_stdout) = 1
    /\ p_joined = 2
    /\ \A i \in DOMAIN procs : procs[i].pc = "done"
    /\ \E k \in Keywords : POut[k] # <<>>

\* a worker of the thread driver is still scanning
TScanning(j) == threads[j].pc = "scan"

\* a worker of the process driver has not put its partial result yet
PScanning(j) == procs[j].pc = "run"

\* the statement of C11 as written: a partial result is merged only when no
\* other worker is still scanning
C11_MergeAfterAllWorkers ==
    /\ \A i \in DOMAIN threads :
          (threads[i].pc = "merge" \/ threads[i].merges > 0) =>
              /\ Len(threads) = Len(TChunks)
              /\ \A j \in DOMAIN threads : ~TScanning(j)
    /\ p_got > 0 => \A j \in DOMAIN procs : ~PScanning(j)

\* a step that merges into the aggregate is taken before the driver has
\* printed, and merges the partial result of a worker whose own scan is over
C11_MergeStep ==
    /\ (shared' # shared /\ t_pc \in {"main", "done"}) =>
          /\ t_pc = "main" /\ t_stdout = <<>>
          /\ lock # 0 /\ threads[lock].scans = 1 /\ ~TScanning(lock)
    /\ (result' # result /\ p_pc \in {"collect", "done"}) =>
          /\ p_pc = "collect" /\ p_stdout = <<>>
          /\ q # <<>> /\ procs[Head(q).from].puts = 1 /\ ~PScanning(Head(q).from)

\* C11 (amended): in both variants no partial result is merged while the
\* worker that produced it is still scanning, and none is merged after the
\* driver has printed; other workers may still be running during a merge.
C11_MergeOwnScanDone == [][C11_MergeStep]_vars

\* the first worker's partial result is in the aggregate while the second
\* worker is still scanning
C11_Witness ==
    /\ Len(threads) = 2
    /\ threads[1].merges = 1
    /\ TScanning(2)
    /\ \E k \in Keywords : shared[k] # <<>> /\ shared[k] = threads[1].part[k]

\* the thread driver has returned from main: every worker ended and was
\* joined, the lock is free and the document was printed once
TFinished ==
    /\ TDone
    /\ Len(threads) = Len(TChunks)
    /\ \A i \in DOMAIN threads : threads[i].pc = "done"
    /\ t_joined = Len(threads)
    /\ lock = 0
    /\ Len(t_stdout) = 1

\* the process driver has returned from main: every worker exited and was
\* joined, every receive returned, the queue is drained and the document was
\* printed once
PFinished ==
    /\ PDone
    /\ Len(procs) = Len(PChunks)
    /\ \A i \in DOMAIN procs : procs[i].pc = "done"
    /\ p_got = Len(procs)
    /\ p_joined = Len(procs)
    /\ q = <<>>
    /\ Len(p_stdout) = 1

Finished == TFinished \/ PFinished

\* no state before the end is stuck, nothing is printed twice, and an empty
\* file list starts no worker and attempts no receive
C12_Safe ==
    /\ Finished \/ ENABLED Next
    /\ Len(t_stdout) <= 1 /\ Len(p_stdout) <= 1
    /\ (t_pc \in {"main", "done"} /\ t_files = <<>>) => threads = <<>>
    /\ (p_pc \in {"spawn", "collect", "done"} /\ p_files = <<>>) =>
          procs = <<>> /\ p_got = 0 /\ p_recvd = <<>>

\* C12: under fair scheduling and with no failing worker, each driver
\* eventually terminates for every directory, keyword list and worker count:
\* every worker finishes, every join and receive returns, the document is
\* printed exactly once, and no deadlock state is reachable.
C12_Terminates == []C12_Safe /\ <>[]Finished

\* the process driver returned after two workers delivered in start order
C12_Witness ==
    /\ PFinished
    /\ Len(procs) = 2
    /\ p_recvd = <<1, 2>>

\* the entries the files of one chunk contribute to the list of keyword k:
\* each matching file, in chunk order, once per occurrence of k in the
\* keyword list
Block(files, k) ==
    Flatten([i \in DOMAIN files |->
                IF Matches(files[i], k)
                THEN [j \in 1..Count(k, args_keywords) |-> Str(files[i])]
                ELSE <<>>])

\* the entries of a result list are in ascending path order
Ascending(list) ==
    \A a, b \in DOMAIN list : a < b => list[a][2] <= list[b][2]

\* C13: with worker count 1 at most one worker is ever started, it holds the
\* whole sorted file list, and the list a finished driver prints for a keyword
\* is a function of the inputs alone: the matching files in ascending
\* enumeration order.
C13_SequentialAtOne ==
    args_n = 1 =>
        /\ Len(threads) <= 1 /\ Len(procs) <= 1
        /\ \A i \in DOMAIN threads :
              threads[i].files = t_files /\ t_files = SortedSeq(Glob)
        /\ \A i \in DOMAIN procs :
              n_proc = 1 /\ procs[i].files = p_files /\ p_files = SortedSeq(Glob)
        /\ TDone => \A k \in Keywords :
              /\ TOut[k] = Block(SortedSeq(Glob), k)
              /\ Ascending(TOut[k])
              /\ Range(TOut[k]) = { Str(f) : f \in { g \in Glob : Matches(g, k) } }
        /\ PDone => \A k \in Keywords :
              /\ POut[k] = Block(SortedSeq(Glob), k)
              /\ Ascending(POut[k])
              /\ Range(POut[k]) = { Str(f) : f \in { g \in Glob : Matches(g, k) } }

\* one thread scanned three files and printed two of them under one keyword
C13_Witness ==
    /\ args_n = 1
    /\ TDone
    /\ Len(threads) = 1
    /\ Len(threads[1].files) = MaxFiles
    /\ \E k \in Keywords : Cardinality(Range(TOut[k])) >= 2

\* C14: when the root path does not exist or is not a directory the run
\* aborts: no worker is started and no driver prints a result document.
C14_MissingRootFails ==
    ~root_exists =>
        /\ threads = <<>> /\ procs = <<>>
        /\ t_stdout = <<>> /\ p_stdout = <<>>

\* the chunk lists are computed once the driver has enumerated the files
TChunked == t_pc \in {"main", "done"}
PChunked == p_pc \in {"spawn", "collect", "done"}

\* the statement of C15 as written: the chunk count is the worker count
\* clamped to at least 1
C15_ChunkCountIsW ==
    /\ TChunked => Len(TChunks) = Max(args_n, 1)
    /\ PChunked => Len(PChunks) = Max(n_proc, 1)

\* the least integer not below a / b, for b > 0
Ceil(a, b) == (a + b - 1) \div b

\* the chunk count for n files and requested worker count w
ChunkCountOk(c, n, w) ==
    LET W == Max(w, 1)
        k == Max(1, Ceil(n, W))
    IN  /\ c = Ceil(n, k)
        /\ c <= W
        /\ c = 0 <=> n = 0
        /\ (n > 0 /\ n % W = 0) => c = W

\* C15 (amended): the number of chunks, and so of workers started, is
\* ceil(n / k) for chunk size k = max(1, ceil(n / W)) and W clamped to at
\* least 1: it never exceeds W, is 0 exactly for the empty file list, and
\* equals W when n is a positive multiple of W.
C15_ChunkCount ==
    /\ TChunked =>
          /\ ChunkCountOk(Len(TChunks), Len(t_files), args_n)
          /\ Len(threads) <= Len(TChunks)
          /\ TDone => Len(threads) = Len(TChunks)
    /\ PChunked =>
          /\ ChunkCountOk(Len(PChunks), Len(p_files), n_proc)
          /\ Len(procs) <= Len(PChunks)
          /\ PDone => Len(procs) = Len(PChunks)

\* two workers were requested and one file found: one worker ran
C15_Witness ==
    /\ TDone
    /\ args_n = 2
    /\ Len(t_files) = 1
    /\ Len(threads) = 1

\* the sizes of the chunks cs cut from n files for worker count W >= 1
ChunkSizesOk(cs, n, W) ==
    LET k == Ceil(n, W)
    IN  /\ \A j \in DOMAIN cs :
              /\ cs[j] # <<>>
              /\ j < Len(cs) => Len(cs[j]) = k
              /\ j = Len(cs) => Len(cs[j]) \in 1..k
        /\ Len(cs) <= W
        /\ n = 0 => cs = <<>>
        /\ (W >= n /\ n > 0) => \A j \in DOMAIN cs : Len(cs[j]) = 1

\* C16: for n files and worker count W >= 1, every chunk but the last has
\* exactly ceil(n / W) files, the last has between 1 and that many, no chunk
\* is empty, there are at most W chunks, none for n = 0, and every chunk is a
\* single file when W >= n > 0.
C16_ChunkSizes ==
    /\ (TChunked /\ args_n >= 1) => ChunkSizesOk(TChunks, Len(t_files), args_n)
    /\ (PChunked /\ n_proc >= 1) => ChunkSizesOk(PChunks, Len(p_files), n_proc)
    /\ \A i \in DOMAIN threads : threads[i].files = TChunks[i]
    /\ \A i \in DOMAIN procs : procs[i].files = PChunks[i]

\* three files cut for two workers: a full chunk and a shorter last one
C16_Witness ==
    /\ PChunked
    /\ n_proc = 2
    /\ Len(procs) = 2
    /\ Len(procs[1].files) = 2
    /\ Len(procs[2].files) = 1

\* the paths of the files held by the workers ws that ended normally and
\* match keyword k
DeliveredSet(ws, k) ==
    UNION { { Str(f) : f \in { g \in Range(ws[i].files) : Matches(g, k) } }
            : i \in { j \in DOMAIN ws : ws[j].pc = "done" } }

\* the thread driver with a failed worker finishes with exactly the chunks of
\* the other workers in the aggregate
C17_ThreadUndercount ==
    /\ t_pc # "off" => TDone \/ ENABLED NextFault
    /\ TDone => \A k \in Keywords : Range(TOut[k]) = DeliveredSet(threads, k)

\* the process driver with a failed worker finishes with exactly the chunks of
\* the other workers in the aggregate
C17_ProcessUndercount ==
    /\ p_pc # "off" => PDone \/ ENABLED NextFault
    /\ PDone => \A k \in Keywords : Range(POut[k]) = DeliveredSet(procs, k)

\* C17: in both variants, when a started worker fails before it delivers its
\* partial result, the driver still finishes, with exactly that worker's chunk
\* missing from the aggregate, and never waits forever for the failed worker.
C17_FailedWorkerUndercount == C17_ThreadUndercount /\ C17_ProcessUndercount

\* the process driver is blocked in q.get() for a worker that died before its
\* put: nothing was printed and no step is possible
C17_Witness ==
    /\ p_pc = "collect"
    /\ p_stdout = <<>>
    /\ \E i \in DOMAIN procs : procs[i].pc = "crashed"
    /\ ~ENABLED NextFault

\* the orders in which n workers can deliver
Perms(n) ==
    { p \in [1..n -> 1..n] : \A a, b \in 1..n : a # b => p[a] # p[b] }

\* the list of keyword k is the concatenation, in worker order p, of the
\* blocks the workers ws contribute
ConcatOf(list, ws, p, k) ==
    list = Flatten([i \in DOMAIN ws |-> Block(ws[p[i]].files, k)])

\* C18: in a finished driver the list of every keyword is the concatenation
\* of the workers' partial lists in one order of the workers: each worker's
\* entries form one contiguous block in the file order of its chunk, and the
\* entries of two workers are never interleaved.
C18_ConcatOfBlocks ==
    /\ \A i \in DOMAIN threads : \A k \in Keywords :
          threads[i].part # Unbound => threads[i].part[k] = Block(threads[i].files, k)
    /\ TDone => \E p \in Perms(Len(threads)) :
          \A k \in Keywords : ConcatOf(TOut[k], threads, p, k)
    /\ PDone => \E p \in Perms(Len(procs)) :
          \A k \in Keywords : ConcatOf(POut[k], procs, p, k)

\* the second thread delivered its one entry before the first delivered two
C18_Witness ==
    /\ TDone
    /\ Len(threads) = 2
    /\ \E k \in Keywords :
          /\ Len(threads[1].part[k]) = 2
          /\ Len(threads[2].part[k]) = 1
          /\ TOut[k] = threads[2].part[k] \o threads[1].part[k]

\* C19: in the result a finished driver prints, the path of a file occurs in
\* result[k] as many times as the exact string k occurs in the keyword list
\* when the file was read and matches k, and not at all otherwise.
C19_Multiplicity ==
    /\ TDone => \A f \in Glob : \A k \in Keywords :
          Count(Str(f), TOut[k]) =
              IF Matches(f, k) THEN Count(k, args_keywords) ELSE 0
    /\ PDone => \A f \in Glob : \A k \in Keywords :
          Count(Str(f), POut[k]) =
              IF Matches(f, k) THEN Count(k, args_keywords) ELSE 0

\* a keyword given twice lists a matching file twice under its single key,
\* and an unreadable file holding the keyword is not listed
C19_Witness ==
    /\ PDone
    /\ Len(args_keywords) = 2
    /\ args_keywords[1] = args_keywords[2]
    /\ \E f \in Glob : Count(Str(f), POut[args_keywords[1]]) = 2
    /\ \E g \in Glob : ~fs[g].readable /\ Count(Str(g), POut[args_keywords[1]]) = 0

====
